---- MODULE Spec2Model ----
(***************************************************************************)
(* The playback / drilling / shadow-recording engine of the BlurReader     *)
(* component (src/components/BlurReader.tsx).                              *)
(*                                                                         *)
(* Time is counted in milliseconds.  React state (useState) and refs       *)
(* (useRef) are the variables; every event handler, timer callback and     *)
(* animation-frame callback is one action.  A handler invoked by a user    *)
(* event is rendered and its effects are flushed before the next event     *)
(* (React flushes discrete events synchronously), so the closures it       *)
(* leaves behind are those of the state it produces.  The simulated clock  *)
(* reads Date.now() in a callback that runs every SimInterval ms: its      *)
(* k-th tick is taken at offset + k * SimInterval.                         *)
(***************************************************************************)
EXTENDS Integers, Sequences, FiniteSets

\* ------------------------------------------------------------------ constants of the code
Epsilon == 50
ClampOffset == 10
ReplayWindow == 100
DeadZone == 2000
SimInterval == 100
SeekStep == 3000
Infinity == 1000000

\* ------------------------------------------------------------------ bounds of the model
\* the clock advance between two animation frames (below Epsilon)
FrameMs == 40
\* the loop counter is capped (it is unbounded when loopCount = Infinity)
MaxPlayCount == 4
\* microphone requests awaiting the grant, plus recorders left open
MaxPending == 2
\* onstop updates waiting for a render
MaxQueued == 1
\* files offered for download
MaxDownloads == 1

\* samples of a decoded buffer
MaxSamples == 3
\* canvas.width, scaled down from 600
CanvasWidth == 3
\* the sample value 1.0
FullScale == 2

\* ------------------------------------------------------------------ materials (inputs)
SegRec(s, e) == [startTime |-> s, endTime |-> e]

\* a real track: a normal sentence, a sentence shorter than the clamp offset,
\* and a last sentence ending with the track
MReal == [audio |-> TRUE, dur |-> 260,
          segs |-> << SegRec(0, 160), SegRec(160, 165), SegRec(165, 260) >>]
\* simulated track (audioUrl = ""), second boundary off the 100 ms tick grid
MSim == [audio |-> FALSE, dur |-> 0,
         segs |-> << SegRec(0, 200), SegRec(200, 350), SegRec(350, 500) >>]
\* real and simulated tracks with a sentence longer than the dead zone
MRealLong == [audio |-> TRUE, dur |-> 3400,
              segs |-> << SegRec(0, 220), SegRec(220, 3300), SegRec(3300, 3400) >>]
MSimLong == [audio |-> FALSE, dur |-> 0,
             segs |-> << SegRec(0, 200), SegRec(200, 3300), SegRec(3300, 3400) >>]

\* two-sentence tracks for the recording scenarios
MRealTiny == [audio |-> TRUE, dur |-> 160,
              segs |-> << SegRec(0, 80), SegRec(80, 160) >>]
MSimTiny == [audio |-> FALSE, dur |-> 0,
             segs |-> << SegRec(0, 100), SegRec(100, 200) >>]

\* a generated material whose response listed no segment
MSimEmpty == [audio |-> FALSE, dur |-> 0, segs |-> << >>]

\* tracks with silence that belongs to no sentence: before the first sentence,
\* between the sentences and, on the real track, after the last one
MRealGap == [audio |-> TRUE, dur |-> 300,
             segs |-> << SegRec(20, 100), SegRec(140, 260) >>]
MSimGap == [audio |-> FALSE, dur |-> 0,
            segs |-> << SegRec(50, 150), SegRec(250, 400) >>]

Materials == << MReal, MSim, MRealLong, MSimLong, MRealTiny, MSimTiny, MSimEmpty,
                MRealGap, MSimGap >>
ShortMaterials == {1, 2}
LongMaterials == {3, 4}
TinyMaterials == {5, 6}
\* the simulated tracks a reader is switched between: three and two sentences
SwitchMaterials == {2, 6}
EmptyMaterials == {7}
\* the real tracks whose audio is decoded for the waveforms
BufferMaterials == {1, 5}
GapMaterials == {8, 9}

\* what decodeAudioData can return: sample rates (samples per second), sample
\* values (-1.0, 0 and 1.5: a lossy decode is not clipped to the nominal range),
\* one or two channels
SampleRates == {12, 25}
SampleValues == {-FullScale, 0, 3}
Channel(n) == [1..n -> SampleValues]
Buffers ==
  { [rate |-> r, chans |-> << c >>] :
      r \in SampleRates, c \in UNION { Channel(n) : n \in 1..MaxSamples } }
  \cup
  { [rate |-> r, chans |-> << c[1], c[2] >>] :
      r \in SampleRates,
      c \in UNION { Channel(n) \X Channel(n) : n \in 1..(MaxSamples - 1) } }

PlayModes == {"article", "sentence"}
LoopModes == {1, 2, 3, Infinity}

VARIABLES
  material,          \* props.material (index into Materials)
  isPlaying, currentTime, duration, activeIndex,   \* useState, lines 18-21
  playMode, loopCount,                             \* useState, lines 24-25
  userRecordings, isRecording,                     \* useState, lines 31-32
  audioTime, audioPaused,                          \* the <audio> element behind audioRef
  currentPlayCount, lastActiveIndex,               \* refs, lines 46-47
  sim,               \* the interval behind simulationRef and the closure of its callback
  chk,               \* the animation-frame loop behind preciseCheckRef and its closure
  pendingMic,        \* getUserMedia calls awaiting the grant (segment index each captured)
  mediaRecorder,     \* the recorder behind mediaRecorderRef
  orphaned,          \* recorders still recording that mediaRecorderRef no longer names
  recOrder,          \* the keys of the userRecordings object in insertion order
  queuedClips,       \* onstop updates of userRecordings enqueued and not rendered yet
  alertMsg,          \* the last window.alert shown ("" none)
  isExporting,       \* useState, line 33
  exportJob,         \* the call of mergeAudioBlobs in flight and the blobs it was given
  downloads,         \* the files offered for download, each the sequence of its clips
  pendingInit,       \* the material prop changed and the effects of that render are due
  streams,           \* capture streams of getUserMedia whose tracks are not stopped
  decoding,          \* onstop handlers waiting for decodeAudioData (part_000 line 455)
  recMat,            \* history: the material rendered when toggleRecording last asked for the microphone
  fullOriginalBuffer,    \* useState, part_000 line 95: the decoded track
  activeSegmentBuffer,   \* useState, part_000 line 96
  canvas,            \* the bars StaticWaveform has drawn, a [min, max] per column
  loads,             \* the materials whose loadAudio call awaits fetch or decode
  isLoadingAudio,    \* useState, part_000 line 98
  bufferMat,         \* history: the material whose track fullOriginalBuffer was decoded from
  ev                 \* history: the last operation and what it saw before acting

vars == << material, isPlaying, currentTime, duration, activeIndex, playMode, loopCount,
           userRecordings, isRecording, audioTime, audioPaused, currentPlayCount,
           lastActiveIndex, sim, chk, pendingMic, mediaRecorder, orphaned, recOrder,
           queuedClips, alertMsg, isExporting, exportJob, downloads, pendingInit, streams,
           decoding, recMat, fullOriginalBuffer, activeSegmentBuffer, canvas, loads,
           isLoadingAudio, bufferMat, ev >>

\* ------------------------------------------------------------------ helpers
Min(a, b) == IF a < b THEN a ELSE b
Max(a, b) == IF a > b THEN a ELSE b

Segs == Materials[material].segs
NSeg == Len(Segs)
HasAudio == Materials[material].audio
AudioDur == Materials[material].dur
\* material.segments[i], i counted from 0 as in the code
Seg(i) == Segs[i + 1]
HasSeg(i) == i >= 0 /\ i < NSeg

\* HTMLMediaElement.currentTime setter: the position is kept inside the track
SetAudioTime(t) == Max(0, Min(AudioDur, t))

\* segments.findIndex(seg => t >= seg.startTime && t < seg.endTime)
FindIndex(t) ==
  LET hits == { i \in 0..(NSeg - 1) : t >= Seg(i).startTime /\ t < Seg(i).endTime }
  IN IF hits = {} THEN -1 ELSE CHOOSE i \in hits : \A j \in hits : i <= j

\* segs.find(s => t >= s.startTime && t <= s.endTime), as an index
FindSimIn(segs, t) ==
  LET hits == { i \in 0..(Len(segs) - 1) :
                  t >= segs[i + 1].startTime /\ t <= segs[i + 1].endTime }
  IN IF hits = {} THEN -1 ELSE CHOOSE i \in hits : \A j \in hits : i <= j

\* the same over the segments of the rendered material
FindSim(t) == FindSimIn(Segs, t)

\* history record of the last operation: its name; its argument (skip: -1 prev,
\* 1 next; click and recorder events: the segment index; a tick: what it did,
\* 0 advanced, 1 replayed, 2 paused at a boundary, 3 stopped at the end of the
\* track; togglePlay: 1 when pressed right after a tick paused at a boundary);
\* the clock value a tick sampled; and what the operation started from: loop
\* counter (recStop: the number of stored clips), activeIndex, currentTime,
\* isPlaying (each kept only for the operations that read it); for a tick,
\* fresh: the tick's closure held the rendered playMode and loopCount
EvRec(op, arg, t, cnt, ai, ct, playing, fresh) ==
  [op |-> op, arg |-> arg, t |-> t, cnt |-> cnt, ai |-> ai, ct |-> ct,
   playing |-> playing, fresh |-> fresh]
NoEv == EvRec("init", 0, -1, 0, -1, 0, FALSE, TRUE)
TickEv(op, did, t, c) ==
  EvRec(op, did, t, currentPlayCount, activeIndex, 0, TRUE,
        c.mode = playMode /\ c.loop = loopCount)
NavEv(op, arg) ==
  EvRec(op, arg, -1, currentPlayCount, activeIndex, currentTime, isPlaying, TRUE)
PlainEv(op, arg) == EvRec(op, arg, -1, 0, activeIndex, 0, isPlaying, TRUE)

\* ------------------------------------------------------------------ effects
\* the effect following the clock wherever it is, out of the sentences too (C38
\* must notice the difference)
ScrollSync_Follow(ct, ai, last, cnt) ==
  LET idx == FindIndex(ct)
  IN IF idx # last
       THEN [ai |-> idx, last |-> idx, cnt |-> 0]
       ELSE [ai |-> ai, last |-> last, cnt |-> cnt]

\* "Scroll Sync & Active Index Logic": the effect on [currentTime, material.segments].
\* Given the new currentTime ct and the rendered activeIndex ai, the ref last and the
\* loop counter cnt, the values after the effect.
ScrollSync(ct, ai, last, cnt) ==
  LET idx == FindIndex(ct)
  IN IF idx # -1 /\ idx # last
       THEN [ai |-> idx, last |-> idx, cnt |-> 0]
       ELSE IF idx = -1 /\ ai = -1 /\ NSeg > 0
              THEN [ai |-> 0, last |-> 0, cnt |-> cnt]
              ELSE [ai |-> ai, last |-> last, cnt |-> cnt]

\* setCurrentTime(ct) followed by the render it causes: the effect runs only when the
\* value changed.  cnt is the loop counter the handler left.
AfterSetCurrentTime(ct, ai, cnt) ==
  IF ct # currentTime THEN ScrollSync(ct, ai, lastActiveIndex, cnt)
  ELSE [ai |-> ai, last |-> lastActiveIndex, cnt |-> cnt]

\* cancelAnimationFrame(preciseCheckRef.current), lines 124-126 and 301: the frame the
\* ref names is taken off the pending ones, when it is still pending
CancelCheck == IF chk.live THEN chk.n - 1 ELSE chk.n

\* "High Precision Loop" effect: the loop it leaves for the rendered state.  The
\* cleanup of the last run cancels the frame the ref names, the new run requests one
\* when the reader plays a track (lines 90, 121); n counts the chains of check() with a
\* frame pending.  A run whose dependencies did not change leaves the same count.
LoopFor(playing, ai, mode, loop) ==
  [live |-> playing /\ HasAudio, active |-> ai, mode |-> mode, loop |-> loop,
   n |-> CancelCheck + (IF playing /\ HasAudio THEN 1 ELSE 0)]

\* window.clearInterval(simulationRef.current) as the number of intervals it leaves
\* running (lines 132, 152, 160, 196, 299)
ClearSimulation == IF sim.live THEN sim.n - 1 ELSE sim.n

\* startSimulation without its first line (line 132): the interval the ref names
\* keeps running beside the new one
MaxLoops == 2
StartSimulation_NoClear(offset, mode, loop, dur) ==
  [live |-> TRUE, time |-> offset, mode |-> mode, loop |-> loop, dur |-> dur,
   mat |-> material, n |-> Min(sim.n + 1, MaxLoops)]

\* startSimulation(offset), called from a render with playMode mode, loopCount loop
\* and duration dur
StartSimulation(offset, mode, loop, dur) ==
  [live |-> TRUE, time |-> offset, mode |-> mode, loop |-> loop, dur |-> dur,
   mat |-> material, n |-> ClearSimulation + 1]

\* window.clearInterval(simulationRef.current)
StopSimulation ==
  [live |-> FALSE, time |-> 0, mode |-> "article", loop |-> 1, dur |-> 0, mat |-> 0,
   n |-> ClearSimulation]

\* material.segments[i] in the closure of the interval callback
SimSeg(i) == Materials[sim.mat].segs[i + 1]

\* mediaRecorderRef names no recorder that is recording
NoRecorder == [seg |-> -1, recording |-> FALSE]

\* an AudioBuffer: its sample rate (samples per second) and, per channel, its
\* samples in units of FullScale; null is the buffer without a channel
NoBuffer == [rate |-> 0, chans |-> << >>]
BufLen(b) == IF b.chans = << >> THEN 0 ELSE Len(b.chans[1])

\* no mergeAudioBlobs call is in flight
NoJob == [live |-> FALSE, blobs |-> << >>]

\* ------------------------------------------------------------------ initial state
\* after the first render and its effects (lines 50-63 and 274-295)
InitFor(ms) ==
  /\ material \in ms
  /\ isPlaying = FALSE
  /\ currentTime = 0
  /\ duration = (IF HasAudio THEN 0
                 ELSE IF NSeg > 0 THEN Seg(NSeg - 1).endTime ELSE 60000)
  /\ activeIndex = ScrollSync(0, -1, -1, 0).ai
  /\ lastActiveIndex = ScrollSync(0, -1, -1, 0).last
  /\ currentPlayCount = 0
  /\ playMode = "article"
  /\ loopCount = 1
  /\ userRecordings = {}
  /\ isRecording = FALSE
  /\ audioTime = 0
  /\ audioPaused = TRUE
  /\ sim = [live |-> FALSE, time |-> 0, mode |-> "article", loop |-> 1, dur |-> 0,
            mat |-> 0, n |-> 0]
  /\ chk = [live |-> FALSE, active |-> activeIndex, mode |-> "article", loop |-> 1,
            n |-> 0]
  /\ pendingMic = << >>
  /\ mediaRecorder = NoRecorder
  /\ orphaned = 0
  /\ recOrder = << >>
  /\ queuedClips = << >>
  /\ alertMsg = ""
  /\ isExporting = FALSE
  /\ exportJob = NoJob
  /\ downloads = << >>
  /\ pendingInit = FALSE
  /\ streams = 0
  /\ decoding = 0
  /\ recMat = material
  /\ fullOriginalBuffer = NoBuffer
  /\ activeSegmentBuffer = NoBuffer
  /\ canvas = << >>
  /\ loads = (IF HasAudio THEN {material} ELSE {})
  /\ isLoadingAudio = HasAudio
  /\ bufferMat = 0
  /\ ev = NoEv

Init == InitFor(ShortMaterials)

\* ------------------------------------------------------------------ the scheduler
recVars == << userRecordings, isRecording, pendingMic, mediaRecorder, orphaned >>
storeVars == << recOrder, queuedClips >>
exportVars == << isExporting, exportJob, downloads >>
\* what no playback control touches
restVars == << recOrder, queuedClips, alertMsg, isExporting, exportJob, downloads,
               pendingInit >>
modeVars == << playMode, loopCount >>
loadVars == << loads, isLoadingAudio, bufferMat >>
bufVars == << fullOriginalBuffer, activeSegmentBuffer, canvas, loads, isLoadingAudio,
             bufferMat >>
micVars == << streams, decoding, recMat >>

\* check(): the boundary condition of the loop's closure c at clock value t (line 97-101)
Boundary(c, t) ==
  /\ c.mode = "sentence"
  /\ c.active # -1
  /\ HasSeg(c.active)
  /\ t >= Seg(c.active).endTime - Epsilon

\* line 105 and line 143: another replay is due
Replays(loop, cnt) == cnt < loop - 1

\* One animation frame while the <audio> element plays: the clock has advanced by
\* FrameMs and check() runs (lines 92-120); the element ends at the end of the track
\* (onEnded, line 458).  lag: the render that follows has not run its effects yet.
Frame(lag) ==
  /\ HasAudio /\ ~audioPaused
  /\ LET t == Min(audioTime + FrameMs, AudioDur) IN
     /\ ev' = TickEv("frame",
                     IF chk.live /\ Boundary(chk, t)
                       THEN IF Replays(chk.loop, currentPlayCount) THEN 1 ELSE 2
                       ELSE IF t = AudioDur THEN 3 ELSE 0,
                     t, chk)
     /\ IF chk.live /\ Boundary(chk, t)
          THEN IF Replays(chk.loop, currentPlayCount)
                 THEN /\ currentPlayCount < MaxPlayCount
                      /\ currentPlayCount' = currentPlayCount + 1
                      /\ audioTime' = SetAudioTime(Seg(chk.active).startTime)
                      /\ UNCHANGED << audioPaused, isPlaying >>
                 ELSE /\ audioPaused' = TRUE
                      /\ audioTime' = SetAudioTime(Seg(chk.active).endTime - ClampOffset)
                      /\ isPlaying' = FALSE
                      /\ UNCHANGED currentPlayCount
          ELSE /\ audioTime' = t
               /\ audioPaused' = (t = AudioDur)
               /\ isPlaying' = (IF t = AudioDur THEN FALSE ELSE isPlaying)
               /\ UNCHANGED currentPlayCount
  /\ chk' = IF lag THEN chk ELSE LoopFor(isPlaying', activeIndex, playMode, loopCount)
  /\ UNCHANGED << material, currentTime, duration, activeIndex, lastActiveIndex, sim >>
  /\ UNCHANGED modeVars
  /\ UNCHANGED recVars
  /\ UNCHANGED restVars
  /\ UNCHANGED micVars
  /\ UNCHANGED bufVars

\* handleTimeUpdate (lines 206-211) and the render it causes
TimeUpdate(lag) ==
  /\ HasAudio
  /\ currentTime # audioTime \/ duration # AudioDur
  /\ LET r == AfterSetCurrentTime(audioTime, activeIndex, currentPlayCount) IN
     /\ currentTime' = audioTime
     /\ duration' = AudioDur
     /\ activeIndex' = r.ai
     /\ lastActiveIndex' = r.last
     /\ currentPlayCount' = r.cnt
  /\ ev' = PlainEv("timeupdate", 0)
  /\ chk' = IF lag THEN chk ELSE LoopFor(isPlaying, activeIndex', playMode, loopCount)
  /\ UNCHANGED << material, isPlaying, audioTime, audioPaused, sim >>
  /\ UNCHANGED modeVars
  /\ UNCHANGED recVars
  /\ UNCHANGED restVars
  /\ UNCHANGED micVars
  /\ UNCHANGED bufVars

\* the interval callback of startSimulation (lines 133-163); newTime is the time
\* since the clock was started at sim.time's offset, one more interval later
SimTick ==
  /\ sim.live
  /\ LET newTime == sim.time + SimInterval
         cur == IF sim.mode = "sentence" THEN FindSimIn(Materials[sim.mat].segs, newTime) ELSE -1
     IN
     /\ ev' = TickEv("tick",
                     IF cur # -1 /\ newTime >= SimSeg(cur).endTime
                       THEN IF Replays(sim.loop, currentPlayCount) THEN 1 ELSE 2
                       ELSE IF newTime >= sim.dur /\ sim.dur > 0 THEN 3 ELSE 0,
                     newTime, sim)
     /\ IF cur # -1 /\ newTime >= SimSeg(cur).endTime
          THEN IF Replays(sim.loop, currentPlayCount)
                 THEN /\ currentPlayCount < MaxPlayCount
                      /\ currentPlayCount' = currentPlayCount + 1
                      /\ sim' = [StartSimulation(SimSeg(cur).startTime, sim.mode,
                                                 sim.loop, sim.dur) EXCEPT !.mat = sim.mat]
                      /\ UNCHANGED << isPlaying, currentTime, activeIndex, lastActiveIndex >>
                 ELSE LET r == AfterSetCurrentTime(SimSeg(cur).startTime, activeIndex,
                                                   currentPlayCount) IN
                      /\ isPlaying' = FALSE
                      /\ currentTime' = SimSeg(cur).startTime
                      /\ sim' = StopSimulation
                      /\ activeIndex' = r.ai
                      /\ lastActiveIndex' = r.last
                      /\ currentPlayCount' = r.cnt
          ELSE IF newTime >= sim.dur /\ sim.dur > 0
                 THEN LET r == AfterSetCurrentTime(0, activeIndex, currentPlayCount) IN
                      /\ isPlaying' = FALSE
                      /\ currentTime' = 0
                      /\ sim' = StopSimulation
                      /\ activeIndex' = r.ai
                      /\ lastActiveIndex' = r.last
                      /\ currentPlayCount' = r.cnt
                 ELSE LET r == AfterSetCurrentTime(newTime, activeIndex, currentPlayCount) IN
                      /\ currentTime' = newTime
                      /\ sim' = [sim EXCEPT !.time = newTime]
                      /\ activeIndex' = r.ai
                      /\ lastActiveIndex' = r.last
                      /\ currentPlayCount' = r.cnt
                      /\ UNCHANGED isPlaying
  /\ chk' = LoopFor(isPlaying', activeIndex', playMode, loopCount)
  /\ UNCHANGED << material, duration, audioTime, audioPaused >>
  /\ UNCHANGED modeVars
  /\ UNCHANGED recVars
  /\ UNCHANGED restVars
  /\ UNCHANGED micVars
  /\ UNCHANGED bufVars

\* ------------------------------------------------------------------ playback controls
\* togglePlay (lines 168-204) as the values it leaves: <audio> position and paused flag,
\* isPlaying, the loop counter and the simulation
TogglePlayResult ==
  IF HasAudio
    THEN IF isPlaying
           THEN [time |-> audioTime, paused |-> TRUE, playing |-> FALSE,
                 cnt |-> currentPlayCount, sim |-> sim]
           ELSE LET atEnd == /\ playMode = "sentence"
                             /\ activeIndex # -1
                             /\ HasSeg(activeIndex)
                             /\ audioTime >= Seg(activeIndex).endTime - ReplayWindow
                IN [time |-> IF atEnd THEN SetAudioTime(Seg(activeIndex).startTime)
                             ELSE IF audioTime = AudioDur THEN 0 ELSE audioTime,
                    paused |-> FALSE, playing |-> TRUE,
                    cnt |-> IF atEnd THEN 0 ELSE currentPlayCount, sim |-> sim]
    ELSE IF isPlaying
           THEN [time |-> audioTime, paused |-> audioPaused, playing |-> FALSE,
                 cnt |-> currentPlayCount, sim |-> StopSimulation]
           ELSE [time |-> audioTime, paused |-> audioPaused, playing |-> TRUE,
                 cnt |-> currentPlayCount,
                 sim |-> StartSimulation(currentTime, playMode, loopCount, duration)]

TogglePlay ==
  /\ LET r == TogglePlayResult IN
     /\ audioTime' = r.time
     /\ audioPaused' = r.paused
     /\ isPlaying' = r.playing
     /\ currentPlayCount' = r.cnt
     /\ sim' = r.sim
  /\ ev' = NavEv("togglePlay", IF ev.op \in {"frame", "tick"} /\ ev.arg = 2 THEN 1 ELSE 0)
  /\ chk' = LoopFor(isPlaying', activeIndex, playMode, loopCount)
  /\ UNCHANGED << material, currentTime, duration, activeIndex, lastActiveIndex >>
  /\ UNCHANGED modeVars
  /\ UNCHANGED recVars
  /\ UNCHANGED restVars
  /\ UNCHANGED micVars
  /\ UNCHANGED bufVars

\* skipToSegment's target without the dead zone: prev always goes one sentence back
\* (C7 must notice the difference)
SkipTarget_NoDeadZone(dir) ==
  LET raw == IF dir = -1 THEN activeIndex - 1 ELSE activeIndex + 1
      low == IF raw < 0 THEN 0 ELSE raw
  IN IF low >= NSeg THEN NSeg - 1 ELSE low

\* skipToSegment's target with the dead zone the other way round: prev restarts
\* the sentence within the dead zone and goes back beyond it (C8 must notice the
\* difference)
SkipTarget_Reversed(dir) ==
  LET raw == IF dir = -1
               THEN IF HasSeg(activeIndex)
                       /\ currentTime - Seg(activeIndex).startTime <= DeadZone
                      THEN activeIndex
                      ELSE activeIndex - 1
               ELSE activeIndex + 1
      low == IF raw < 0 THEN 0 ELSE raw
  IN IF low >= NSeg THEN NSeg - 1 ELSE low

\* lines 214-230: the index skipToSegment(direction) goes to (dir: -1 prev, 1 next)
SkipTarget(dir) ==
  LET raw == IF dir = -1
               THEN IF HasSeg(activeIndex)
                       /\ currentTime - Seg(activeIndex).startTime > DeadZone
                      THEN activeIndex
                      ELSE activeIndex - 1
               ELSE activeIndex + 1
      low == IF raw < 0 THEN 0 ELSE raw
  IN IF low >= NSeg THEN NSeg - 1 ELSE low

\* material.segments[targetIndex]?.startTime ?? 0
StartOrZero(i) == IF HasSeg(i) THEN Seg(i).startTime ELSE 0

\* skipToSegment (lines 213-247)
SkipToSegment(dir) ==
  LET targetTime == StartOrZero(SkipTarget(dir))
      r == AfterSetCurrentTime(targetTime, activeIndex, 0)
  IN
  /\ currentTime' = targetTime
  /\ activeIndex' = r.ai
  /\ lastActiveIndex' = r.last
  /\ currentPlayCount' = r.cnt
  /\ isPlaying' = TRUE
  /\ IF HasAudio
       THEN /\ audioTime' = SetAudioTime(targetTime)
            /\ audioPaused' = FALSE
            /\ UNCHANGED sim
       ELSE /\ sim' = StartSimulation(targetTime, playMode, loopCount, duration)
            /\ UNCHANGED << audioTime, audioPaused >>
  /\ ev' = NavEv("skip", dir)
  /\ chk' = LoopFor(isPlaying', activeIndex', playMode, loopCount)
  /\ UNCHANGED << material, duration >>
  /\ UNCHANGED modeVars
  /\ UNCHANGED recVars
  /\ UNCHANGED restVars
  /\ UNCHANGED micVars
  /\ UNCHANGED bufVars

\* handleSegmentClick (lines 257-271) on segment i
HandleSegmentClick(i) ==
  /\ HasSeg(i)
  /\ currentPlayCount' = 0
  /\ isPlaying' = TRUE
  /\ IF HasAudio
       THEN /\ audioTime' = SetAudioTime(Seg(i).startTime)
            /\ audioPaused' = FALSE
            /\ activeIndex' = i
            /\ UNCHANGED sim
       ELSE /\ sim' = StartSimulation(Seg(i).startTime, playMode, loopCount, duration)
            /\ UNCHANGED << audioTime, audioPaused, activeIndex >>
  /\ ev' = NavEv("click", i)
  /\ chk' = LoopFor(isPlaying', activeIndex', playMode, loopCount)
  /\ UNCHANGED << material, currentTime, duration, lastActiveIndex >>
  /\ UNCHANGED modeVars
  /\ UNCHANGED recVars
  /\ UNCHANGED restVars
  /\ UNCHANGED micVars
  /\ UNCHANGED bufVars

\* seekRelative (lines 249-255), seconds = s / 1000
SeekRelative(s) ==
  /\ HasAudio
  /\ LET newTime == Max(0, Min(AudioDur, audioTime + s))
         r == AfterSetCurrentTime(newTime, activeIndex, currentPlayCount)
     IN
     /\ audioTime' = newTime
     /\ currentTime' = newTime
     /\ activeIndex' = r.ai
     /\ lastActiveIndex' = r.last
     /\ currentPlayCount' = r.cnt
  /\ ev' = PlainEv("seek", s)
  /\ chk' = LoopFor(isPlaying, activeIndex', playMode, loopCount)
  /\ UNCHANGED << material, isPlaying, duration, audioPaused, sim >>
  /\ UNCHANGED modeVars
  /\ UNCHANGED recVars
  /\ UNCHANGED restVars
  /\ UNCHANGED micVars
  /\ UNCHANGED bufVars

\* the drill-mode button (line 601)
TogglePlayMode ==
  /\ playMode' = (IF playMode = "article" THEN "sentence" ELSE "article")
  /\ ev' = PlainEv("playMode", 0)
  /\ chk' = LoopFor(isPlaying, activeIndex, playMode', loopCount)
  /\ UNCHANGED << material, isPlaying, currentTime, duration, activeIndex, loopCount,
                  audioTime, audioPaused, currentPlayCount, lastActiveIndex, sim >>
  /\ UNCHANGED recVars
  /\ UNCHANGED restVars
  /\ UNCHANGED micVars
  /\ UNCHANGED bufVars

\* cycleLoopMode (lines 418-423); the button exists in sentence mode only (line 611)
CycleLoopMode ==
  /\ playMode = "sentence"
  /\ loopCount' = (IF loopCount = 1 THEN 2
                   ELSE IF loopCount = 2 THEN 3
                   ELSE IF loopCount = 3 THEN Infinity ELSE 1)
  /\ ev' = PlainEv("loopMode", 0)
  /\ chk' = LoopFor(isPlaying, activeIndex, playMode, loopCount')
  /\ UNCHANGED << material, isPlaying, currentTime, duration, activeIndex, playMode,
                  audioTime, audioPaused, currentPlayCount, lastActiveIndex, sim >>
  /\ UNCHANGED recVars
  /\ UNCHANGED restVars
  /\ UNCHANGED micVars
  /\ UNCHANGED bufVars

\* ------------------------------------------------------------------ shadow recording
playVars == << currentTime, duration, activeIndex, lastActiveIndex >>

RemoveAt(q, k) == [ j \in 1..(Len(q) - 1) |-> IF j < k THEN q[j] ELSE q[j + 1] ]

\* recorders that are capturing the microphone
OpenSessions == (IF mediaRecorder.recording THEN 1 ELSE 0) + orphaned

\* toggleRecording that asks for the microphone without stopping playback, as the
\* older component in src/unnamed/part_000 does (C5 must notice the difference)
StartRecording_NoPause ==
  /\ activeIndex # -1
  /\ ~isRecording
  /\ Len(pendingMic) + orphaned < MaxPending
  /\ pendingMic' = Append(pendingMic, activeIndex)
  /\ ev' = PlainEv("recStart", 0)
  /\ UNCHANGED << material, isPlaying, audioTime, audioPaused, currentPlayCount, sim, chk,
                  userRecordings, isRecording, mediaRecorder, orphaned >>
  /\ UNCHANGED restVars
  /\ UNCHANGED playVars
  /\ UNCHANGED modeVars
  /\ recMat' = material
  /\ UNCHANGED << streams, decoding >>
  /\ UNCHANGED bufVars

\* toggleRecording with isRecording = false (lines 306-317): playback is stopped and
\* the microphone is asked for; the continuation keeps the activeIndex of this render
StartRecording ==
  /\ activeIndex # -1
  /\ ~isRecording
  /\ Len(pendingMic) + orphaned < MaxPending
  /\ LET r == IF isPlaying THEN TogglePlayResult
              ELSE [time |-> audioTime, paused |-> audioPaused, playing |-> isPlaying,
                    cnt |-> currentPlayCount, sim |-> sim]
     IN
     /\ audioTime' = r.time
     /\ audioPaused' = r.paused
     /\ isPlaying' = r.playing
     /\ currentPlayCount' = r.cnt
     /\ sim' = r.sim
  /\ pendingMic' = Append(pendingMic, activeIndex)
  /\ ev' = PlainEv("recStart", 0)
  /\ chk' = LoopFor(isPlaying', activeIndex, playMode, loopCount)
  /\ UNCHANGED << material, userRecordings, isRecording, mediaRecorder, orphaned >>
  /\ UNCHANGED restVars
  /\ UNCHANGED playVars
  /\ UNCHANGED modeVars
  /\ recMat' = material
  /\ UNCHANGED << streams, decoding >>
  /\ UNCHANGED bufVars

\* onstop filing the clip under the segment that is active when it runs (C10 must
\* notice the difference)
ClipKey_AtStop(rec) == activeIndex

\* { ...prev, [key]: blob } on the key order of the object (line 325)
PutKey(order, key) ==
  IF \E j \in 1..Len(order) : order[j] = key THEN order ELSE Append(order, key)

\* line 324: the key under which onstop files the clip of recorder rec
ClipKey(rec) == rec.seg

\* getUserMedia resolves for the k-th waiting call (lines 317-331)
MicGrant(k) ==
  /\ k \in 1..Len(pendingMic)
  /\ mediaRecorder' = [seg |-> pendingMic[k], recording |-> TRUE]
  /\ orphaned' = OpenSessions
  /\ isRecording' = TRUE
  /\ pendingMic' = RemoveAt(pendingMic, k)
  /\ ev' = PlainEv("micGrant", pendingMic[k])
  /\ UNCHANGED << material, isPlaying, userRecordings, audioTime, audioPaused,
                  currentPlayCount, sim, chk >>
  /\ UNCHANGED restVars
  /\ UNCHANGED playVars
  /\ UNCHANGED modeVars
  /\ streams' = streams + 1
  /\ UNCHANGED << decoding, recMat >>
  /\ UNCHANGED bufVars

\* a rejected getUserMedia that leaves the recording flag set, as if the flag were
\* raised before the microphone is granted (C11 must notice the difference)
MicDeny_FlagSet(k) ==
  /\ k \in 1..Len(pendingMic)
  /\ pendingMic' = RemoveAt(pendingMic, k)
  /\ isRecording' = TRUE
  /\ alertMsg' = "mic"
  /\ ev' = PlainEv("micDeny", pendingMic[k])
  /\ UNCHANGED << material, isPlaying, userRecordings, audioTime, audioPaused,
                  currentPlayCount, sim, chk, mediaRecorder, orphaned >>
  /\ UNCHANGED storeVars
  /\ UNCHANGED exportVars
  /\ UNCHANGED pendingInit
  /\ UNCHANGED playVars
  /\ UNCHANGED modeVars
  /\ UNCHANGED micVars
  /\ UNCHANGED bufVars

\* getUserMedia rejects for the k-th waiting call (lines 332-335)
MicDeny(k) ==
  /\ k \in 1..Len(pendingMic)
  /\ pendingMic' = RemoveAt(pendingMic, k)
  /\ ev' = PlainEv("micDeny", pendingMic[k])
  /\ UNCHANGED << material, isPlaying, userRecordings, isRecording, audioTime,
                  audioPaused, currentPlayCount, sim, chk, mediaRecorder, orphaned >>
  /\ alertMsg' = "mic"
  /\ UNCHANGED storeVars
  /\ UNCHANGED exportVars
  /\ UNCHANGED pendingInit
  /\ UNCHANGED playVars
  /\ UNCHANGED modeVars
  /\ UNCHANGED micVars
  /\ UNCHANGED bufVars

\* toggleRecording with isRecording = true (lines 309-311) and the recorder's onstop
\* (lines 322-327)
StopRecording ==
  /\ activeIndex # -1
  /\ isRecording
  /\ mediaRecorder.recording
  /\ userRecordings' = userRecordings \cup {ClipKey(mediaRecorder)}
  /\ mediaRecorder' = NoRecorder
  /\ isRecording' = FALSE
  /\ ev' = EvRec("recStop", mediaRecorder.seg, -1, Cardinality(userRecordings),
                 activeIndex, 0, isPlaying, TRUE)
  /\ UNCHANGED << material, isPlaying, audioTime, audioPaused, currentPlayCount, sim,
                  chk, pendingMic, orphaned >>
  /\ recOrder' = PutKey(recOrder, ClipKey(mediaRecorder))
  /\ UNCHANGED << queuedClips, alertMsg, pendingInit >>
  /\ UNCHANGED exportVars
  /\ UNCHANGED playVars
  /\ UNCHANGED modeVars
  /\ streams' = streams - 1
  /\ UNCHANGED << decoding, recMat >>
  /\ UNCHANGED bufVars

\* the player state no recorder, store or export operation touches
engineVars == << material, isPlaying, audioTime, audioPaused, currentPlayCount, sim, chk >>

RangeOf(q) == { q[j] : j \in 1..Len(q) }

\* The stop of a recording whose onstop update of userRecordings is enqueued and
\* rendered later (lines 309-311 and 322-327): onstop runs outside a user event, so
\* its functional update waits for the next render.
StopRecordingQueued ==
  /\ activeIndex # -1
  /\ isRecording
  /\ mediaRecorder.recording
  /\ Len(queuedClips) < MaxQueued
  /\ queuedClips' = Append(queuedClips, ClipKey(mediaRecorder))
  /\ mediaRecorder' = NoRecorder
  /\ isRecording' = FALSE
  /\ ev' = PlainEv("recStopQueued", mediaRecorder.seg)
  /\ UNCHANGED << userRecordings, recOrder, pendingMic, orphaned, alertMsg, pendingInit >>
  /\ UNCHANGED engineVars
  /\ UNCHANGED exportVars
  /\ UNCHANGED playVars
  /\ UNCHANGED modeVars
  /\ streams' = streams - 1
  /\ UNCHANGED << decoding, recMat >>
  /\ UNCHANGED bufVars

\* prev => ({ ...prev, [key]: blob }) applied for every queued update, in order
RECURSIVE PutAll(_, _)
PutAll(order, q) ==
  IF q = << >> THEN order ELSE PutAll(PutKey(order, Head(q)), Tail(q))

\* the render that applies the queued onstop updates (line 325)
FlushClips ==
  /\ queuedClips # << >>
  /\ userRecordings' = userRecordings \cup RangeOf(queuedClips)
  /\ recOrder' = PutAll(recOrder, queuedClips)
  /\ queuedClips' = << >>
  /\ ev' = PlainEv("flushClips", 0)
  /\ UNCHANGED << isRecording, pendingMic, mediaRecorder, orphaned, alertMsg, pendingInit >>
  /\ UNCHANGED engineVars
  /\ UNCHANGED exportVars
  /\ UNCHANGED playVars
  /\ UNCHANGED modeVars
  /\ UNCHANGED micVars
  /\ UNCHANGED bufVars

\* delete newRecs[segId] on the key order
DropKey(order, key) == SelectSeq(order, LAMBDA k : k # key)

\* deleteUserRecording (lines 363-369); the button is rendered while the active
\* segment has a clip (lines 446 and 549).  setUserRecordings(newRecs) replaces the
\* state by a copy of the rendered object: updates queued before it are applied
\* first and then overwritten.
DeleteUserRecording ==
  /\ activeIndex # -1
  /\ activeIndex \in userRecordings
  /\ userRecordings' = userRecordings \ {activeIndex}
  /\ recOrder' = DropKey(recOrder, activeIndex)
  /\ queuedClips' = << >>
  /\ ev' = PlainEv("delete", activeIndex)
  /\ UNCHANGED << isRecording, pendingMic, mediaRecorder, orphaned, alertMsg, pendingInit >>
  /\ UNCHANGED engineVars
  /\ UNCHANGED exportVars
  /\ UNCHANGED playVars
  /\ UNCHANGED modeVars
  /\ UNCHANGED micVars
  /\ UNCHANGED bufVars

\* ------------------------------------------------------------------ material switch
\* The parent renders the mounted reader with another material: the commit shows
\* the new material.segments with the state and refs as they are; an <audio>
\* element is new or loads its new src, so it is paused at 0.  The effects of the
\* commit are still to run.
ChangeMaterial(m) ==
  /\ m # material
  /\ material' = m
  /\ pendingInit' = TRUE
  /\ audioTime' = 0
  /\ audioPaused' = TRUE
  /\ ev' = PlainEv("material", m)
  /\ UNCHANGED << isPlaying, currentTime, duration, activeIndex, lastActiveIndex,
                  currentPlayCount, sim, chk, alertMsg >>
  /\ UNCHANGED modeVars
  /\ UNCHANGED recVars
  /\ UNCHANGED storeVars
  /\ UNCHANGED exportVars
  /\ UNCHANGED micVars
  /\ UNCHANGED bufVars

\* The effects of the commit that changed material, in the order of their
\* declaration, and the render their updates cause: Initialization (lines 50-63),
\* then Scroll Sync (lines 274-295) with the currentTime and activeIndex that were
\* rendered, whose setActiveIndex comes after the one of Initialization; the next
\* render has currentTime 0 and runs Scroll Sync again if that is a change.  The
\* interval behind simulationRef and the recorder are not touched.
InitEffects ==
  /\ pendingInit
  /\ LET idx == FindIndex(currentTime)
         r1 == IF idx # -1 /\ idx # lastActiveIndex
                 THEN [ai |-> idx, last |-> idx]
                 ELSE IF idx = -1 /\ activeIndex = -1 /\ NSeg > 0
                        THEN [ai |-> 0, last |-> 0]
                        ELSE [ai |-> -1, last |-> lastActiveIndex]
         r2 == IF currentTime # 0 THEN ScrollSync(0, r1.ai, r1.last, 0)
               ELSE [ai |-> r1.ai, last |-> r1.last, cnt |-> 0]
     IN
     /\ activeIndex' = r2.ai
     /\ lastActiveIndex' = r2.last
     /\ currentPlayCount' = r2.cnt
  /\ currentTime' = 0
  /\ isPlaying' = FALSE
  /\ userRecordings' = {}
  /\ recOrder' = << >>
  /\ queuedClips' = << >>
  /\ duration' = (IF HasAudio THEN duration
                  ELSE IF NSeg > 0 THEN Seg(NSeg - 1).endTime ELSE 60000)
  /\ chk' = LoopFor(FALSE, activeIndex', playMode, loopCount)
  /\ pendingInit' = FALSE
  /\ ev' = PlainEv("initEffects", material)
  /\ UNCHANGED << material, audioTime, audioPaused, sim, alertMsg >>
  /\ UNCHANGED << isRecording, pendingMic, mediaRecorder, orphaned >>
  /\ UNCHANGED modeVars
  /\ UNCHANGED exportVars
  /\ UNCHANGED micVars
  /\ UNCHANGED bufVars

\* activeIndex after the first render of material m and its Scroll Sync effect
MountIndex(m) ==
  LET segs == Materials[m].segs
      hits == { i \in 0..(Len(segs) - 1) : 0 >= segs[i + 1].startTime /\ 0 < segs[i + 1].endTime }
  IN IF hits # {} THEN CHOOSE i \in hits : \A j \in hits : i <= j
     ELSE IF Len(segs) > 0 THEN 0 ELSE -1

\* The switch the application makes: onBack unmounts the reader (its cleanup
\* clears the interval and the animation frame, lines 297-303) and a card mounts a
\* new one on material m (App.tsx lines 68-70 and 144); playMode and loopCount
\* start again too.  Taken while nothing is being recorded or exported.
Remount(m) ==
  /\ ~isRecording /\ pendingMic = << >> /\ ~mediaRecorder.recording
  /\ ~isExporting
  /\ material' = m
  /\ isPlaying' = FALSE
  /\ currentTime' = 0
  /\ duration' = (IF Materials[m].audio THEN 0
                  ELSE IF Len(Materials[m].segs) > 0
                         THEN Materials[m].segs[Len(Materials[m].segs)].endTime
                         ELSE 60000)
  /\ activeIndex' = MountIndex(m)
  /\ lastActiveIndex' = MountIndex(m)
  /\ currentPlayCount' = 0
  /\ playMode' = "article"
  /\ loopCount' = 1
  /\ userRecordings' = {}
  /\ recOrder' = << >>
  /\ queuedClips' = << >>
  /\ audioTime' = 0
  /\ audioPaused' = TRUE
  /\ sim' = StopSimulation
  /\ chk' = [live |-> FALSE, active |-> MountIndex(m), mode |-> "article", loop |-> 1,
             n |-> CancelCheck]
  /\ pendingInit' = FALSE
  /\ ev' = EvRec("remount", m, -1, 0, MountIndex(m), 0, FALSE, TRUE)
  /\ UNCHANGED << isRecording, pendingMic, mediaRecorder, orphaned, alertMsg >>
  /\ UNCHANGED exportVars
  /\ recMat' = m
  /\ UNCHANGED << streams, decoding >>
  /\ UNCHANGED bufVars

\* ------------------------------------------------------------------ waveforms (part_000)
\* Math.floor(time * sampleRate), time in ms
SampleAt(t, rate) == (t * rate) \div 1000

\* the extraction returning the slice it copies, without the buffer of `length`
\* samples around it (C22 must notice the difference)
ExtractSegment_Slice(buf, ai) ==
  IF buf = NoBuffer \/ ai = -1 THEN NoBuffer
  ELSE LET startSample == SampleAt(Seg(ai).startTime, buf.rate)
           endSample == SampleAt(Seg(ai).endTime, buf.rate)
           length == endSample - startSample
       IN IF length <= 0 \/ startSample >= BufLen(buf) THEN NoBuffer
          ELSE [rate |-> buf.rate,
                chans |-> [c \in 1..Len(buf.chans) |->
                             SubSeq(buf.chans[c], startSample + 1,
                                    Min(endSample, BufLen(buf)))]]

\* "Extract Active Segment Buffer" (part_000 lines 142-177): createBuffer gives
\* `length` zero samples per channel, subarray(startSample, endSample) stops at the
\* end of the source and set() copies it to the front
ExtractSegment(buf, ai) ==
  IF buf = NoBuffer \/ ai = -1 THEN NoBuffer
  ELSE LET startSample == SampleAt(Seg(ai).startTime, buf.rate)
           endSample == SampleAt(Seg(ai).endTime, buf.rate)
           length == endSample - startSample
       IN IF length <= 0 \/ startSample >= BufLen(buf) THEN NoBuffer
          ELSE [rate |-> buf.rate,
                chans |-> [c \in 1..Len(buf.chans) |->
                             [i \in 1..length |->
                                IF startSample + i <= BufLen(buf)
                                  THEN buf.chans[c][startSample + i]
                                  ELSE 0]]]

MinOf(S) == CHOOSE x \in S : \A y \in S : x <= y
MaxOf(S) == CHOOSE x \in S : \A y \in S : x >= y

\* StaticWaveform (part_000 lines 42-71): per column the min and max the loop
\* leaves, started at 1.0 and -1.0; data[k] past the end is undefined and
\* compares false.  The buffer without a channel is drawn as a flat line.
Waveform(buf, width) ==
  IF buf = NoBuffer THEN << >>
  ELSE LET data == buf.chans[1]
           n == Len(data)
           step == (n + width - 1) \div width
       IN [col \in 1..width |->
             LET seen == { data[k + 1] :
                             k \in { k \in ((col - 1) * step)..((col - 1) * step + step - 1) :
                                       k < n } }
                 min == MinOf(seen \cup {FullScale})
                 max == MaxOf(seen \cup {-FullScale})
             IN IF max = -FullScale /\ min = FullScale
                  THEN [min |-> 0, max |-> 0]
                  ELSE [min |-> min, max |-> max]]

\* the loadAudio call made for material m resolves with the decoded track b
\* (part_000 lines 125-128 and 137): nothing ties the call to the material that
\* is rendered when it resolves; the extraction effect and the waveform follow
LoadAudioFor(m, b) ==
  /\ m \in loads
  /\ loads' = loads \ {m}
  /\ isLoadingAudio' = FALSE
  /\ bufferMat' = m
  /\ fullOriginalBuffer' = b
  /\ activeSegmentBuffer' = ExtractSegment(b, activeIndex)
  /\ canvas' = Waveform(activeSegmentBuffer', CanvasWidth)
  /\ ev' = PlainEv("loadAudio", m)
  /\ UNCHANGED << material, isPlaying, currentTime, duration, activeIndex, lastActiveIndex,
                  currentPlayCount, audioTime, audioPaused, sim, chk, streams,
                  decoding, recMat >>
  /\ UNCHANGED modeVars
  /\ UNCHANGED recVars
  /\ UNCHANGED restVars

\* the loadAudio effect resolves with the decoded track (part_000 lines 120-139);
\* the extraction effect and the waveform follow
LoadAudio(b) ==
  /\ HasAudio
  /\ fullOriginalBuffer = NoBuffer
  /\ LoadAudioFor(material, b)

\* activeIndex becomes i; the extraction effect and the waveform follow
ActivateSegment(i) ==
  /\ i # activeIndex
  /\ activeIndex' = i
  /\ activeSegmentBuffer' = ExtractSegment(fullOriginalBuffer, i)
  /\ canvas' = Waveform(activeSegmentBuffer', CanvasWidth)
  /\ chk' = LoopFor(isPlaying, i, playMode, loopCount)
  /\ ev' = PlainEv("activate", i)
  /\ UNCHANGED << material, isPlaying, currentTime, duration, lastActiveIndex,
                  currentPlayCount, audioTime, audioPaused, sim, streams, decoding, recMat,
                  fullOriginalBuffer >>
  /\ UNCHANGED loadVars
  /\ UNCHANGED modeVars
  /\ UNCHANGED recVars
  /\ UNCHANGED restVars

\* ------------------------------------------------------------------ export
\* lines 372-380 taking the clips in the order the userRecordings object lists
\* them (C13 must notice the difference)
OrderedBlobs_AsRecorded == recOrder

\* lines 372-380: the clips of the segments that have one, in the order of
\* material.segments (a clip is named by its segment)
OrderedBlobs ==
  LET F[n \in 0..NSeg] ==
        IF n = 0 THEN << >>
        ELSE IF (n - 1) \in userRecordings THEN Append(F[n - 1], n - 1) ELSE F[n - 1]
  IN F[NSeg]

\* handleExport that starts the merge whatever the store holds (C14 must notice
\* the difference)
HandleExport_NoCheck ==
  /\ ~isExporting
  /\ Len(downloads) < MaxDownloads
  /\ isExporting' = TRUE
  /\ exportJob' = [live |-> TRUE, blobs |-> OrderedBlobs]
  /\ UNCHANGED << alertMsg, downloads >>
  /\ ev' = PlainEv("export", Len(OrderedBlobs))
  /\ UNCHANGED << pendingInit >>
  /\ UNCHANGED recVars
  /\ UNCHANGED storeVars
  /\ UNCHANGED engineVars
  /\ UNCHANGED playVars
  /\ UNCHANGED modeVars
  /\ UNCHANGED micVars
  /\ UNCHANGED bufVars

\* handleExport behind a button that stays enabled during an export (C29 must
\* notice the difference)
HandleExport_NoGuard ==
  /\ Len(downloads) < MaxDownloads
  /\ IF OrderedBlobs = << >>
       THEN /\ alertMsg' = "noRecordings"
            /\ UNCHANGED exportVars
       ELSE /\ isExporting' = TRUE
            /\ exportJob' = [live |-> TRUE, blobs |-> OrderedBlobs]
            /\ UNCHANGED << alertMsg, downloads >>
  /\ ev' = PlainEv("export", Len(OrderedBlobs))
  /\ UNCHANGED << pendingInit >>
  /\ UNCHANGED recVars
  /\ UNCHANGED storeVars
  /\ UNCHANGED engineVars
  /\ UNCHANGED playVars
  /\ UNCHANGED modeVars
  /\ UNCHANGED micVars
  /\ UNCHANGED bufVars

\* handleExport up to the await (lines 371-389); the button is disabled while
\* isExporting (line 673)
HandleExport ==
  /\ ~isExporting
  /\ Len(downloads) < MaxDownloads
  /\ IF OrderedBlobs = << >>
       THEN /\ alertMsg' = "noRecordings"
            /\ UNCHANGED exportVars
       ELSE /\ isExporting' = TRUE
            /\ exportJob' = [live |-> TRUE, blobs |-> OrderedBlobs]
            /\ UNCHANGED << alertMsg, downloads >>
  /\ ev' = PlainEv("export", Len(OrderedBlobs))
  /\ UNCHANGED << pendingInit >>
  /\ UNCHANGED recVars
  /\ UNCHANGED storeVars
  /\ UNCHANGED engineVars
  /\ UNCHANGED playVars
  /\ UNCHANGED modeVars
  /\ UNCHANGED micVars
  /\ UNCHANGED bufVars

\* the file mergeAudioBlobs resolves with: the given clips end to end
MergeResult(blobs) == blobs

\* mergeAudioBlobs resolves: the file is offered for download (lines 389-397, 402)
MergeDone ==
  /\ exportJob.live
  /\ downloads' = Append(downloads, MergeResult(exportJob.blobs))
  /\ isExporting' = FALSE
  /\ exportJob' = NoJob
  /\ ev' = PlainEv("mergeDone", 0)
  /\ UNCHANGED << alertMsg, pendingInit >>
  /\ UNCHANGED recVars
  /\ UNCHANGED storeVars
  /\ UNCHANGED engineVars
  /\ UNCHANGED playVars
  /\ UNCHANGED modeVars
  /\ UNCHANGED micVars
  /\ UNCHANGED bufVars

\* a failed merge that still offers the clips that decoded, all but the last
\* (C15 must notice the difference)
MergeFail_Partial ==
  /\ exportJob.live
  /\ Len(downloads) < MaxDownloads
  /\ downloads' = Append(downloads, SubSeq(exportJob.blobs, 1, Len(exportJob.blobs) - 1))
  /\ alertMsg' = "exportFailed"
  /\ isExporting' = FALSE
  /\ exportJob' = NoJob
  /\ ev' = PlainEv("mergeFail", 0)
  /\ UNCHANGED << pendingInit >>
  /\ UNCHANGED recVars
  /\ UNCHANGED storeVars
  /\ UNCHANGED engineVars
  /\ UNCHANGED playVars
  /\ UNCHANGED modeVars
  /\ UNCHANGED micVars
  /\ UNCHANGED bufVars

\* mergeAudioBlobs rejects (lines 398-402)
MergeFail ==
  /\ exportJob.live
  /\ alertMsg' = "exportFailed"
  /\ isExporting' = FALSE
  /\ exportJob' = NoJob
  /\ ev' = PlainEv("mergeFail", 0)
  /\ UNCHANGED << downloads, pendingInit >>
  /\ UNCHANGED recVars
  /\ UNCHANGED storeVars
  /\ UNCHANGED engineVars
  /\ UNCHANGED playVars
  /\ UNCHANGED modeVars
  /\ UNCHANGED micVars
  /\ UNCHANGED bufVars

\* ------------------------------------------------------------------ specifications
\* The playback engine: clock, scheduler and every playback control, on a real and a
\* simulated track of three sentences.
Next ==
  \/ Frame(FALSE)
  \/ TimeUpdate(FALSE)
  \/ SimTick
  \/ TogglePlay
  \/ \E dir \in {-1, 1} : SkipToSegment(dir)
  \/ \E i \in 0..2 : HandleSegmentClick(i)
  \/ \E s \in {-SeekStep, SeekStep} : SeekRelative(s)
  \/ TogglePlayMode
  \/ CycleLoopMode

Spec == Init /\ [][Next]_vars

\* The shadow recorder together with the playback controls, on two-sentence tracks.
InitRec == InitFor(TinyMaterials)

NextRec ==
  \/ Frame(FALSE)
  \/ TimeUpdate(FALSE)
  \/ SimTick
  \/ TogglePlay
  \/ \E dir \in {-1, 1} : SkipToSegment(dir)
  \/ \E i \in 0..1 : HandleSegmentClick(i)
  \/ TogglePlayMode
  \/ StartRecording
  \/ \E k \in 1..MaxPending : MicGrant(k)
  \/ \E k \in 1..MaxPending : MicDeny(k)
  \/ StopRecording

SpecRec == InitRec /\ [][NextRec]_vars

\* Navigation on tracks whose middle sentence is longer than the dead zone (article
\* mode; the seek goes forward here, both directions are in Next).
InitLong == InitFor(LongMaterials)

NextLong ==
  \/ Frame(FALSE)
  \/ TimeUpdate(FALSE)
  \/ SimTick
  \/ TogglePlay
  \/ \E dir \in {-1, 1} : SkipToSegment(dir)
  \/ \E i \in 0..2 : HandleSegmentClick(i)
  \/ SeekRelative(SeekStep)

SpecLong == InitLong /\ [][NextLong]_vars

\* The recording store with the render of onstop's update lagging behind, one
\* recording at a time.
NextStore ==
  \/ \E dir \in {-1, 1} : SkipToSegment(dir)
  \/ TogglePlay
  \/ (pendingMic = << >> /\ StartRecording)
  \/ MicGrant(1)
  \/ StopRecordingQueued
  \/ FlushClips
  \/ DeleteUserRecording

SpecStore == Init /\ [][NextStore]_vars

\* Recording and export, one recording at a time.
NextExport ==
  \/ \E dir \in {-1, 1} : SkipToSegment(dir)
  \/ (pendingMic = << >> /\ StartRecording)
  \/ MicGrant(1)
  \/ StopRecording
  \/ DeleteUserRecording
  \/ HandleExport
  \/ MergeDone
  \/ MergeFail

SpecExport == Init /\ [][NextExport]_vars

\* A reader whose material is switched, by the application's unmount and mount and
\* by a change of the prop; simulated clock, article mode.
InitSwitch == InitFor(SwitchMaterials)

NextSwitch ==
  \/ (pendingInit /\ InitEffects)
  \/ (~pendingInit /\ \E m \in SwitchMaterials : ChangeMaterial(m))
  \/ (~pendingInit /\ \E m \in SwitchMaterials : Remount(m))
  \/ (~pendingInit /\ TogglePlay)
  \/ (~pendingInit /\ SimTick)
  \/ (~pendingInit /\ \E dir \in {-1, 1} : SkipToSegment(dir))
  \/ (~pendingInit /\ \E i \in 0..(NSeg - 1) : HandleSegmentClick(i))
  \/ (~pendingInit /\ pendingMic = << >> /\ StartRecording)
  \/ (~pendingInit /\ MicGrant(1))
  \/ (~pendingInit /\ StopRecording)

SpecSwitch == InitSwitch /\ [][NextSwitch]_vars

\* A reader on a material without segments.
InitEmpty == InitFor(EmptyMaterials)

NextEmpty ==
  \/ TogglePlay
  \/ \E dir \in {-1, 1} : SkipToSegment(dir)
  \/ SimTick

SpecEmpty == InitEmpty /\ [][NextEmpty]_vars

\* The decoded track, the buffer of the active segment and its waveform.
InitBuf == InitFor(BufferMaterials)

NextBuf ==
  \/ \E b \in Buffers : LoadAudio(b)
  \/ \E i \in -1..(NSeg - 1) : ActivateSegment(i)

SpecBuf == InitBuf /\ [][NextBuf]_vars

\* ------------------------------------------------------------------ vocabulary of the claims
\* the position of the transport clock
Clock == IF HasAudio THEN audioTime ELSE IF sim.live THEN sim.time ELSE currentTime

\* a scheduler tick is live
TickLive == IF HasAudio THEN ~audioPaused ELSE sim.live

\* the last operation was a scheduler tick that ran in sentence mode, with the
\* play mode and loop target that were set when its clock was started
SentenceTick ==
  /\ ev.op \in {"frame", "tick"}
  /\ ev.fresh
  /\ playMode = "sentence"
  /\ HasSeg(ev.ai)

\* ... and the clock crossed the boundary of the active segment: the animation
\* frame sampled it within Epsilon of endTime or later, the simulated clock
\* stepped from before endTime to endTime or later
Crossing ==
  /\ SentenceTick
  /\ IF HasAudio THEN ev.t >= Seg(ev.ai).endTime - Epsilon
     ELSE ev.t - SimInterval < Seg(ev.ai).endTime /\ ev.t >= Seg(ev.ai).endTime

\* the last tick replayed the active segment / stopped playback
Replayed ==
  /\ isPlaying /\ TickLive
  /\ Clock = Seg(ev.ai).startTime
  /\ currentPlayCount = ev.cnt + 1
  /\ activeIndex = ev.ai
Stopped == ~isPlaying /\ ~TickLive

\* C1: in sentence mode with a finite loop target N, a boundary crossing of the
\* active segment with fewer than N-1 replays counted reseeks the clock to the
\* segment's startTime and keeps playing; the crossing with N-1 replays counted
\* stops playback; and while playback is stopped no tick is live, so nothing is
\* replayed automatically afterwards.
C1_LoopContract ==
  /\ (Crossing /\ loopCount # Infinity) =>
        IF ev.cnt < loopCount - 1 THEN Replayed ELSE Stopped
  /\ ~isPlaying => ~TickLive

\* C2: in sentence mode with loopTarget unbounded, every boundary crossing of the
\* active segment reseeks to that segment's startTime, leaves the active segment
\* unchanged and leaves isPlaying true.
C2_UnboundedLoop ==
  (Crossing /\ loopCount = Infinity) => Replayed

\* the scheduler's own boundary test fired on the last tick (line 101, line 141)
Detected ==
  /\ SentenceTick
  /\ IF HasAudio THEN ev.t >= Seg(ev.ai).endTime - Epsilon
     ELSE FindSim(ev.t) = ev.ai /\ ev.t >= Seg(ev.ai).endTime

\* C3: whenever the scheduler detects a boundary of the active segment, the clock
\* position after its action (replay or auto-pause) lies in
\* [startTime, endTime) of that segment, for every segment.
C3_PositionInSegment ==
  Detected => (Clock >= Seg(ev.ai).startTime /\ Clock < Seg(ev.ai).endTime)

\* ------------------------------------------------------------------ recording and playback
\* C4: playback and microphone recording are mutually exclusive in every reachable
\* state: isPlaying is never true while a recording session is open.
C4_Exclusive == ~(isPlaying /\ isRecording)

\* C5: starting a recording while isPlaying is true leaves isPlaying false and the
\* clock stopped, and microphone capture for that request has not begun yet (the
\* request is still waiting for the grant).
C5_StartPauses ==
  (ev.op = "recStart" /\ ev.playing) =>
     /\ ~isPlaying
     /\ ~TickLive
     /\ ~chk.live
     /\ Len(pendingMic) > 0
     /\ pendingMic[Len(pendingMic)] = ev.ai
     /\ ~mediaRecorder.recording

\* a recording was started during playback, which is now stopped
C5_Witness == ev.op = "recStart" /\ ev.playing /\ ~isPlaying /\ Len(pendingMic) > 0

\* ------------------------------------------------------------------ manual navigation
\* the last operation was a manual replay: play pressed on the sentence at whose
\* boundary the scheduler had just paused
ManualReplay ==
  /\ ev.op = "togglePlay" /\ ev.arg = 1 /\ ~ev.playing
  /\ playMode = "sentence"
  /\ isPlaying

\* C6: every manual navigation (skipToSegment prev/next, segment click, manual
\* replay) leaves the loop counter at 0, whatever its previous value.
C6_NavigationResets ==
  (ev.op \in {"skip", "click"} \/ ManualReplay) => currentPlayCount = 0

\* the part of C6 about skipToSegment and the segment click alone
SkipAndClickReset ==
  ev.op \in {"skip", "click"} => currentPlayCount = 0

\* the sentence a skipToSegment('prev') from sentence ai at currentTime ct goes to
PrevTarget(ai, ct) ==
  IF ct - Seg(ai).startTime > DeadZone THEN ai ELSE Max(ai - 1, 0)

\* the last operation was skipToSegment('prev') from an active sentence
SkippedPrev == ev.op = "skip" /\ ev.arg = -1 /\ HasSeg(ev.ai)

\* C7: skipToSegment('prev') with more than the dead zone elapsed since the active
\* sentence's startTime targets the active sentence, otherwise the previous one
\* (clamped at 0); the clock is seeked to the target's startTime.
C7_PrevDeadZone ==
  SkippedPrev =>
     /\ Clock = Seg(PrevTarget(ev.ai, ev.ct)).startTime
     /\ currentTime = Seg(PrevTarget(ev.ai, ev.ct)).startTime

\* prev restarted a sentence that has a predecessor, beyond the dead zone
C7_Witness ==
  /\ SkippedPrev /\ ev.ai > 0
  /\ ev.ct - Seg(ev.ai).startTime > DeadZone
  /\ Clock = Seg(ev.ai).startTime

\* C8 as stated: skipToSegment('prev') at 0.5 s into the active sentence restarts
\* that sentence; at 3 s into it, it moves to the previous sentence.
C8_AsStated ==
  SkippedPrev =>
     /\ ev.ct - Seg(ev.ai).startTime = 500 => Clock = Seg(ev.ai).startTime
     /\ ev.ct - Seg(ev.ai).startTime = 3000 => Clock = Seg(Max(ev.ai - 1, 0)).startTime

\* C8: skipToSegment('prev') at 0.5 s into the active sentence moves to the previous
\* sentence (clamped at the first); at 3 s into it, it restarts the active sentence.
C8_PrevAtHalfAndThreeSeconds ==
  SkippedPrev =>
     /\ ev.ct - Seg(ev.ai).startTime = 500 => Clock = Seg(Max(ev.ai - 1, 0)).startTime
     /\ ev.ct - Seg(ev.ai).startTime = 3000 => Clock = Seg(ev.ai).startTime

\* prev was pressed 3 s into the second sentence and restarted it
C8_Witness ==
  /\ SkippedPrev /\ ev.ai = 1
  /\ ev.ct - Seg(ev.ai).startTime = 3000
  /\ Clock = Seg(1).startTime

\* ------------------------------------------------------------------ recording sessions
\* C9: at most one recording session (stream and recorder) is open at any time,
\* and no recorder is left recording without mediaRecorderRef naming it.
C9_SingleSession == OpenSessions <= 1 /\ orphaned = 0

\* C10: when a recording is stopped its clip is in the store under the segment
\* that was active when toggleRecording started it, and under no other new key,
\* whatever segment is active at the stop.
C10_ClipUnderStartSegment ==
  ev.op = "recStop" =>
     /\ ev.arg \in userRecordings
     /\ Cardinality(userRecordings \ {ev.arg}) <= ev.cnt
     /\ Cardinality(userRecordings) <= ev.cnt + 1

\* a recording was stopped while another segment than its own was active, and
\* that segment has no clip
C10_Witness ==
  /\ ev.op = "recStop"
  /\ activeIndex # ev.arg
  /\ ev.arg \in userRecordings
  /\ activeIndex \notin userRecordings

\* ------------------------------------------------------------------ microphone denied
\* C11: when the microphone is denied, the failure is shown to the user, and the
\* denial changes neither isRecording (it stays false when no session was open),
\* nor the recorder, nor the recording store, nor playback.
C11_DenyLeavesState ==
  [][ev'.op = "micDeny" =>
        /\ alertMsg' = "mic"
        /\ UNCHANGED << isRecording, mediaRecorder, orphaned, userRecordings, recOrder,
                        isPlaying, audioPaused, sim >>
        /\ (~isRecording => ~isRecording' /\ ~mediaRecorder'.recording)]_vars

\* the microphone was denied for the only request: nothing records, the store is empty
C11_Witness ==
  /\ ev.op = "micDeny"
  /\ alertMsg = "mic"
  /\ ~isRecording /\ OpenSessions = 0 /\ pendingMic = << >>
  /\ userRecordings = {}

\* ------------------------------------------------------------------ recording store
\* C12: deleting the recording of the active segment removes that entry and keeps
\* every other entry, those stored and those a finishing recording has just
\* handed over.
C12_DeleteKeepsOthers ==
  [][ev'.op = "delete" =>
        /\ ev'.arg \notin userRecordings'
        /\ \A k \in (userRecordings \cup RangeOf(queuedClips)) \ {ev'.arg} :
              k \in userRecordings' \cup RangeOf(queuedClips')]_vars

\* ------------------------------------------------------------------ export
\* the last operation handed clips to the encoder
Exported == ev.op = "export" /\ exportJob.live

\* C13: the clips handed to the export encoder are exactly the segments that have
\* a recording, each once, in transcript order, whatever the order of recording.
C13_ExportOrder ==
  Exported =>
     /\ RangeOf(exportJob.blobs) = userRecordings
     /\ \A j, k \in 1..Len(exportJob.blobs) : j < k => exportJob.blobs[j] < exportJob.blobs[k]

\* an export of two clips that were recorded in the reverse order, with a segment
\* in between that has no clip
C13_Witness ==
  /\ Exported
  /\ recOrder = << 2, 0 >>
  /\ exportJob.blobs = << 0, 2 >>

\* C14: an export with an empty store starts no merge, produces no file, leaves
\* isExporting false and tells the user.
C14_EmptyExportFails ==
  [][(ev'.op = "export" /\ userRecordings = {}) =>
        /\ ~isExporting' /\ ~exportJob'.live
        /\ downloads' = downloads
        /\ alertMsg' = "noRecordings"]_vars

\* an export was asked for with an empty store
C14_Witness ==
  /\ ev.op = "export" /\ ev.arg = 0
  /\ userRecordings = {}
  /\ alertMsg = "noRecordings" /\ ~isExporting /\ downloads = << >>

\* C15: when the merge fails the export is aborted: no file is produced, the
\* failure is shown, the store is what it was and isExporting is false again.
C15_FailedExportAborts ==
  [][ev'.op = "mergeFail" =>
        /\ downloads' = downloads
        /\ alertMsg' = "exportFailed"
        /\ UNCHANGED << userRecordings, recOrder >>
        /\ ~isExporting' /\ ~exportJob'.live]_vars

\* the merge of two clips failed
C15_Witness ==
  /\ ev.op = "mergeFail"
  /\ alertMsg = "exportFailed" /\ downloads = << >> /\ ~isExporting
  /\ Cardinality(userRecordings) >= 2

\* ------------------------------------------------------------------ material switch
\* C16: a switch of material resets activeIndex, currentTime, isPlaying, the loop
\* counter and the recording store in the same transition: the state that first
\* shows the new material has none of the previous material's values.
C16_AtomicReset ==
  [][material' # material =>
        /\ currentTime' = 0 /\ ~isPlaying' /\ currentPlayCount' = 0
        /\ userRecordings' = {}
        /\ activeIndex' \in {-1, 0}]_vars

\* C17: a tick of the scheduler runs only while playback is on: after playback
\* stopped, the reader was unmounted or the material changed, no tick scheduled
\* before runs and changes currentTime, isPlaying or the loop counter.
C17_NoTickAfterStop ==
  [][(ev'.op = "tick" \/ (ev'.op = "frame" /\ chk.live)) => (isPlaying /\ ~pendingInit)]_vars

\* C18: activeIndex is -1 or the index of a segment of the rendered material.
C18_IndexInRange == activeIndex = -1 \/ (0 <= activeIndex /\ activeIndex < NSeg)

\* ------------------------------------------------------------------ end of track, short segments
\* the last operation was a tick whose clock value had reached the end of the
\* track and that did not replay a sentence
AtEndOfTrack ==
  /\ ev.op \in {"frame", "tick"}
  /\ ev.t >= (IF HasAudio THEN AudioDur ELSE duration)
  /\ ev.arg # 1

\* C19: when the clock reaches the end of the track playback stops and the
\* position is reset to 0, in article and in sentence mode, on a real track and
\* on the simulated clock.
C19_EndOfTrackResets == AtEndOfTrack => (~isPlaying /\ Clock = 0)

\* C20: the scheduler never spins on a segment: a tick that reseeks to the start
\* of a segment is not followed at once by another tick that reseeks to the start
\* of the same segment, whatever the loop target.
C20_NoSpin ==
  [][~(/\ ev.op \in {"frame", "tick"} /\ ev.arg = 1
       /\ ev'.op = ev.op /\ ev'.arg = 1
       /\ ev'.ai = ev.ai)]_vars

\* ------------------------------------------------------------------ material without segments
\* C21: with a material of zero segments the player is inert: activeIndex stays
\* -1, the clock is never started and no tick is scheduled.
C21_Inert ==
  NSeg = 0 => (activeIndex = -1 /\ ~isPlaying /\ ~sim.live /\ ~chk.live /\ audioPaused)

\* ------------------------------------------------------------------ waveforms
\* the sample range of the active segment in the decoded track
StartSample == SampleAt(Seg(activeIndex).startTime, fullOriginalBuffer.rate)
EndSample == SampleAt(Seg(activeIndex).endTime, fullOriginalBuffer.rate)
NoData ==
  \/ fullOriginalBuffer = NoBuffer
  \/ activeIndex = -1
  \/ EndSample - StartSample <= 0
  \/ StartSample >= BufLen(fullOriginalBuffer)

\* C22 as stated: the extracted buffer is null without a source, without an
\* active segment, for an empty range or a start at or past the source length;
\* otherwise it has endSample - startSample samples per channel and sample i is
\* source sample startSample + i in every channel.
C22_AsStated ==
  IF NoData THEN activeSegmentBuffer = NoBuffer
  ELSE /\ Len(activeSegmentBuffer.chans) = Len(fullOriginalBuffer.chans)
       /\ \A c \in 1..Len(fullOriginalBuffer.chans) :
             /\ Len(activeSegmentBuffer.chans[c]) = EndSample - StartSample
             /\ \A i \in 1..(EndSample - StartSample) :
                   /\ StartSample + i <= BufLen(fullOriginalBuffer)
                   /\ activeSegmentBuffer.chans[c][i] = fullOriginalBuffer.chans[c][StartSample + i]

\* C22: the same, with the samples of the range that lie past the end of the
\* source being 0.
C22_ExtractPadded ==
  IF NoData THEN activeSegmentBuffer = NoBuffer
  ELSE /\ Len(activeSegmentBuffer.chans) = Len(fullOriginalBuffer.chans)
       /\ activeSegmentBuffer.rate = fullOriginalBuffer.rate
       /\ \A c \in 1..Len(fullOriginalBuffer.chans) :
             /\ Len(activeSegmentBuffer.chans[c]) = EndSample - StartSample
             /\ \A i \in 1..(EndSample - StartSample) :
                   IF StartSample + i <= BufLen(fullOriginalBuffer)
                     THEN activeSegmentBuffer.chans[c][i]
                            = fullOriginalBuffer.chans[c][StartSample + i]
                     ELSE activeSegmentBuffer.chans[c][i] = 0

\* a two-channel extraction that starts inside the source and ends past it
C22_Witness ==
  /\ ~NoData
  /\ Len(fullOriginalBuffer.chans) = 2
  /\ StartSample > 0
  /\ EndSample > BufLen(fullOriginalBuffer)
  /\ activeSegmentBuffer.chans[2][1] = 3

\* the samples of column col (from 1) of the waveform of the active segment
Window(col) ==
  LET n == BufLen(activeSegmentBuffer)
      step == (n + CanvasWidth - 1) \div CanvasWidth
  IN { activeSegmentBuffer.chans[1][k + 1] :
         k \in { k \in ((col - 1) * step)..(col * step - 1) : k < n } }

\* C23: the waveform of a buffer has one column per pixel of the width, column i
\* holding the min and max of the samples of its window, and min = max = 0 for a
\* window without a sample.
C23_Columns ==
  activeSegmentBuffer # NoBuffer =>
     /\ Len(canvas) = CanvasWidth
     /\ \A col \in 1..CanvasWidth :
           IF Window(col) = {} THEN canvas[col] = [min |-> 0, max |-> 0]
           ELSE canvas[col] = [min |-> MinOf(Window(col)), max |-> MaxOf(Window(col))]

\* ------------------------------------------------------------------ tracking of the active segment
\* the last operation showed a new clock value: a timeupdate of the <audio>
\* element or a tick of the simulated clock that set currentTime
ClockShown == ev.op = "timeupdate" \/ (ev.op = "tick" /\ ev.arg # 1)

\* the clock value shown lies inside a segment, past its startTime
InsideSegment ==
  /\ FindIndex(currentTime) # -1
  /\ currentTime > Seg(FindIndex(currentTime)).startTime

\* C24: once a clock value inside a segment is shown, activeIndex is that
\* segment, and the loop counter is 0 if that changed activeIndex; in article
\* mode a tick never pauses playback before the end of the track.
C24_ArticleTracking ==
  /\ (ClockShown /\ InsideSegment) =>
        /\ activeIndex = FindIndex(currentTime)
        /\ (activeIndex # ev.ai => currentPlayCount = 0)
  /\ (ev.op \in {"frame", "tick"} /\ ev.fresh /\ playMode = "article") =>
        /\ ev.arg \in {0, 3}
        /\ (ev.arg = 0 => isPlaying)

\* C25: the tick that follows a skipToSegment or a segment click sees the new
\* active segment: on a real track the running check() holds the index of the
\* segment the clock was moved to, so the boundary it tests is that segment's.
C25_FreshIndexAfterSkip ==
  [][(/\ ev.op \in {"skip", "click"} /\ ev'.op \in {"frame", "tick"}
      /\ HasAudio /\ FindIndex(audioTime) # -1) =>
        (chk.live /\ chk.active = FindIndex(audioTime))]_vars

\* ------------------------------------------------------------------ recording and navigation
\* C26: while a recording session is open activeIndex does not change.
C26_ActiveFixedWhileRecording ==
  [][(isRecording /\ mediaRecorder.recording /\ isRecording') => activeIndex' = activeIndex]_vars

\* ------------------------------------------------------------------ the two clocks
\* what the scheduler of the real track does with a tick in sentence mode whose
\* clock value is at or past the end of the active segment (lines 101-115)
BoundaryOutcome == IF Replays(loopCount, ev.cnt) THEN 1 ELSE 2

\* C27: the simulated clock and the real track drive the same scheduler: a tick
\* at or past the end of the active segment is answered by the replay or the
\* auto-pause the loop counter calls for, and play pressed after an auto-pause
\* restarts the sentence with the counter at 0, on either clock.
C27_EnginesAgree ==
  /\ (SentenceTick /\ ev.t >= Seg(ev.ai).endTime) => ev.arg = BoundaryOutcome
  /\ ManualReplay => (currentPlayCount = 0 /\ Clock = Seg(ev.ai).startTime)

\* C28: the auto-pause leaves the loop counter as it is, and play pressed on the
\* sentence at whose boundary the scheduler has paused resets the counter to 0
\* and seeks to the sentence's startTime.
C28_ManualReplay ==
  /\ (SentenceTick /\ ev.arg = 2 /\ activeIndex = ev.ai) => currentPlayCount = ev.cnt
  /\ (ev.op = "togglePlay" /\ ev.arg = 1 /\ ~ev.playing /\ playMode = "sentence"
        /\ HasSeg(ev.ai)) =>
        /\ isPlaying
        /\ currentPlayCount = 0
        /\ Clock = Seg(ev.ai).startTime

\* ------------------------------------------------------------------ one export at a time
\* Recording and export where the promise of mergeAudioBlobs settles: the await
\* of line 389 resumes, in the try block or in the catch block.
NextExportFair ==
  \/ (pendingMic = << >> /\ StartRecording)
  \/ MicGrant(1)
  \/ StopRecording
  \/ \E dir \in {-1, 1} : SkipToSegment(dir)
  \/ HandleExport
  \/ MergeDone
  \/ MergeFail

SpecExportFair == Init /\ [][NextExportFair]_vars /\ WF_vars(MergeDone \/ MergeFail)

\* an export pass starts: handleExport gets past the empty check
ExportStarts == ev'.op = "export" /\ ev'.arg > 0

\* C29: at most one export is in flight: isExporting is true exactly while a
\* merge is awaited, no export pass starts while isExporting is true, and every
\* started export, merged or failed, leads to isExporting false.
C29_OneExport ==
  /\ [](isExporting <=> exportJob.live)
  /\ [][ExportStarts => (~isExporting /\ isExporting')]_vars
  /\ (isExporting ~> ~isExporting)

\* a failed merge has put isExporting back to false
C29_Witness == ev.op = "mergeFail" /\ ~isExporting /\ ~exportJob.live

\* ------------------------------------------------------------------ releasing the microphone
MaxStreams == 2
MaxDecoding == 1

\* toggleRecording with isRecording = true and the onstop of the reader that draws
\* the recorded clip, up to its await (part_000 lines 436-438 and 447-455): the clip
\* is stored and decodeAudioData is awaited; the AudioContext exists from the mount
\* on (part_000 line 113), so the decode is always asked for
StopRecordingDecode ==
  /\ activeIndex # -1
  /\ isRecording
  /\ mediaRecorder.recording
  /\ decoding < MaxDecoding
  /\ userRecordings' = userRecordings \cup {ClipKey(mediaRecorder)}
  /\ recOrder' = PutKey(recOrder, ClipKey(mediaRecorder))
  /\ mediaRecorder' = NoRecorder
  /\ isRecording' = FALSE
  /\ decoding' = decoding + 1
  /\ ev' = PlainEv("recStopDecode", mediaRecorder.seg)
  /\ UNCHANGED << pendingMic, orphaned, queuedClips, alertMsg, pendingInit, streams, recMat >>
  /\ UNCHANGED engineVars
  /\ UNCHANGED exportVars
  /\ UNCHANGED playVars
  /\ UNCHANGED modeVars
  /\ UNCHANGED bufVars

\* decodeAudioData resolves: the decoded clip is kept for the waveform and the
\* tracks of the capture stream are stopped (part_000 lines 455-459)
DecodeDone ==
  /\ decoding > 0
  /\ decoding' = decoding - 1
  /\ streams' = streams - 1
  /\ UNCHANGED recMat
  /\ ev' = PlainEv("decodeDone", 0)
  /\ UNCHANGED recVars
  /\ UNCHANGED restVars
  /\ UNCHANGED engineVars
  /\ UNCHANGED playVars
  /\ UNCHANGED modeVars
  /\ UNCHANGED bufVars

\* blob.arrayBuffer() or decodeAudioData rejects: the async onstop ends at its
\* await (part_000 lines 454-455), nothing catches, and line 459 is never reached
DecodeFail ==
  /\ decoding > 0
  /\ decoding' = decoding - 1
  /\ ev' = PlainEv("decodeFail", 0)
  /\ UNCHANGED << streams, recMat >>
  /\ UNCHANGED recVars
  /\ UNCHANGED restVars
  /\ UNCHANGED engineVars
  /\ UNCHANGED playVars
  /\ UNCHANGED modeVars
  /\ UNCHANGED bufVars

\* The recorder of the reader that draws the recorded clip, one recording at a
\* time, playback at rest (where its toggleRecording and the one of
\* BlurReader.tsx start a recording alike); the decode settles.
NextMic ==
  \/ \E dir \in {-1, 1} : SkipToSegment(dir)
  \/ (pendingMic = << >> /\ streams < MaxStreams /\ StartRecording)
  \/ MicGrant(1)
  \/ MicDeny(1)
  \/ StopRecordingDecode
  \/ DecodeDone
  \/ DecodeFail

SpecMic == Init /\ [][NextMic]_vars /\ WF_vars(DecodeDone \/ DecodeFail)

\* capture streams in use: the one of the running recorder
Held == IF mediaRecorder.recording THEN 1 ELSE 0

\* C30: stopping a recording releases the microphone: an onstop that is waiting
\* for the decode finishes, when it finishes its stream's tracks are stopped,
\* whether the decode succeeded or failed, and so no stream stays open that
\* belongs neither to the running recorder nor to an onstop still waiting.
C30_MicReleased ==
  /\ (decoding = MaxDecoding ~> decoding < MaxDecoding)
  /\ [][decoding' < decoding => streams' = streams - 1]_vars
  /\ [](streams = Held + decoding)

\* ------------------------------------------------------------------ loading the track (part_000)
\* fetch or decodeAudioData rejects for the loadAudio call made for material m:
\* the catch logs and the loading state ends (part_000 lines 129-137)
LoadFail(m) ==
  /\ m \in loads
  /\ loads' = loads \ {m}
  /\ isLoadingAudio' = FALSE
  /\ ev' = PlainEv("loadFail", m)
  /\ UNCHANGED << fullOriginalBuffer, activeSegmentBuffer, canvas, bufferMat >>
  /\ UNCHANGED << activeIndex, lastActiveIndex, currentTime, duration >>
  /\ UNCHANGED engineVars
  /\ UNCHANGED modeVars
  /\ UNCHANGED recVars
  /\ UNCHANGED restVars
  /\ UNCHANGED micVars

\* The effects of the commit that changed material in the reader that draws
\* waveforms, and the render their updates cause: the extraction and user buffer
\* effects read material.segments[activeIndex] of the new material (part_000 lines
\* 148 and 182; they throw when the old index is no segment of it, and the reader
\* ends there), loadAudio starts for the new audioUrl (lines 120-139), the reset
\* (lines 189-200) clears the player and the clips and not fullOriginalBuffer, and
\* Scroll Sync (lines 408-423) has the last word on activeIndex; the extraction
\* then runs for the index that results (lines 142-177).
ResetEffects ==
  /\ pendingInit
  /\ activeIndex < NSeg
  /\ LET idx == FindIndex(currentTime)
         r1 == IF idx # -1 /\ idx # activeIndex THEN idx
               ELSE IF idx = -1 /\ activeIndex = -1 /\ NSeg > 0 THEN 0
               ELSE -1
         idx0 == FindIndex(0)
         r2 == IF currentTime = 0 THEN r1
               ELSE IF idx0 # -1 /\ idx0 # r1 THEN idx0
               ELSE IF idx0 = -1 /\ r1 = -1 /\ NSeg > 0 THEN 0
               ELSE r1
     IN activeIndex' = r2
  /\ currentTime' = 0
  /\ isPlaying' = FALSE
  /\ userRecordings' = {}
  /\ recOrder' = << >>
  /\ queuedClips' = << >>
  /\ duration' = (IF HasAudio THEN duration
                  ELSE IF NSeg > 0 THEN Seg(NSeg - 1).endTime ELSE 60000)
  /\ chk' = LoopFor(FALSE, activeIndex', playMode, loopCount)
  /\ loads' = (IF HasAudio THEN loads \cup {material} ELSE loads)
  /\ isLoadingAudio' = (IF HasAudio THEN TRUE ELSE isLoadingAudio)
  /\ activeSegmentBuffer' = ExtractSegment(fullOriginalBuffer, activeIndex')
  /\ canvas' = Waveform(activeSegmentBuffer', CanvasWidth)
  /\ pendingInit' = FALSE
  /\ ev' = PlainEv("resetEffects", material)
  /\ UNCHANGED << fullOriginalBuffer, bufferMat >>
  /\ UNCHANGED << material, audioTime, audioPaused, sim, alertMsg, lastActiveIndex,
                  currentPlayCount >>
  /\ UNCHANGED << isRecording, pendingMic, mediaRecorder, orphaned >>
  /\ UNCHANGED modeVars
  /\ UNCHANGED exportVars
  /\ UNCHANGED micVars

\* the tracks decodeAudioData returns here: one channel at 25 samples per second
Tracks == { b \in Buffers : Len(b.chans) = 1 /\ b.rate = 25 }

\* The reader that draws waveforms, on real tracks: the track loads or fails to
\* load, the material prop changes, a segment becomes active, play is pressed.
InitLoad == InitFor(BufferMaterials)

NextLoad ==
  \/ (pendingInit /\ ResetEffects)
  \/ (~pendingInit /\ \E m \in BufferMaterials : ChangeMaterial(m))
  \/ (~pendingInit /\ \E m \in BufferMaterials, b \in Tracks : LoadAudioFor(m, b))
  \/ (~pendingInit /\ \E m \in BufferMaterials : LoadFail(m))
  \/ (~pendingInit /\ \E i \in 0..(NSeg - 1) : ActivateSegment(i))
  \/ (~pendingInit /\ TogglePlay)

SpecLoad == InitLoad /\ [][NextLoad]_vars

\* C31: a failed load of the track ends the loading state, changes none of
\* isPlaying, currentTime, activeIndex and the loop counter, and leaves the
\* reader without a segment buffer.
C31_LoadFailure ==
  [][ev'.op = "loadFail" =>
        /\ ~isLoadingAudio'
        /\ isPlaying' = isPlaying /\ currentTime' = currentTime
        /\ activeIndex' = activeIndex /\ currentPlayCount' = currentPlayCount
        /\ audioTime' = audioTime /\ audioPaused' = audioPaused
        /\ activeSegmentBuffer' = NoBuffer]_vars

\* C32: the decoded track the reader holds, and so the waveform it draws, is of
\* the material it shows: no load started for another material publishes its
\* buffer after the switch.
C32_CurrentTrack ==
  (~pendingInit /\ fullOriginalBuffer # NoBuffer) => bufferMat = material

\* ------------------------------------------------------------------ no active segment
\* A reader on a real or a simulated track whose material prop changes, with
\* both play modes: the states in which sentence mode meets activeIndex = -1.
NextIdle ==
  \/ (pendingInit /\ InitEffects)
  \/ (~pendingInit /\ \E m \in ShortMaterials : ChangeMaterial(m))
  \/ (~pendingInit /\ TogglePlay)
  \/ (~pendingInit /\ TogglePlayMode)
  \/ (~pendingInit /\ Frame(FALSE))
  \/ (~pendingInit /\ TimeUpdate(FALSE))
  \/ (~pendingInit /\ SimTick)

SpecIdle == Init /\ [][NextIdle]_vars

\* C33: a scheduler tick that runs in sentence mode while activeIndex is -1
\* takes no boundary action: it neither replays (the only step that counts a
\* loop) nor pauses, it lets the clock advance or end the track.
C33_NoSelectionNoAction ==
  [][(ev'.op \in {"frame", "tick"} /\ ev'.fresh /\ playMode = "sentence" /\ activeIndex = -1) =>
        /\ ev'.arg \in {0, 3}
        /\ (ev'.arg = 0 => isPlaying' = isPlaying)
        /\ currentPlayCount' <= currentPlayCount]_vars

\* ------------------------------------------------------------------ relative seek
\* seekRelative on a simulated track (lines 249-255): there is no <audio> element
\* (line 452), audioRef.current is null and the handler does nothing
SeekRelativeSim(s) ==
  /\ ~HasAudio
  /\ ev' = PlainEv("seek", s)
  /\ UNCHANGED << activeIndex, lastActiveIndex, currentTime, duration >>
  /\ UNCHANGED engineVars
  /\ UNCHANGED modeVars
  /\ UNCHANGED recVars
  /\ UNCHANGED restVars
  /\ UNCHANGED micVars
  /\ UNCHANGED bufVars

\* Playing and seeking by 3 s either way, on tracks longer than the step.
NextSeek ==
  \/ TogglePlay
  \/ Frame(FALSE)
  \/ TimeUpdate(FALSE)
  \/ SimTick
  \/ \E s \in {-SeekStep, SeekStep} : SeekRelative(s)
  \/ \E s \in {-SeekStep, SeekStep} : SeekRelativeSim(s)

SpecSeek == InitLong /\ [][NextSeek]_vars

\* the length of the track: of the <audio> element, or the duration state that
\* stands for it on a simulated track
TrackEnd == IF HasAudio THEN AudioDur ELSE duration

\* C34: a relative seek by N moves the clock to clamp(clock + N, 0, duration),
\* on the real and on the simulated track, and shows that position.
C34_SeekClamps ==
  [][ev'.op = "seek" =>
        /\ Clock' = Max(0, Min(TrackEnd, Clock + ev'.arg))
        /\ currentTime' = Clock']_vars

\* ------------------------------------------------------------------ the store and the player
\* The recording store next to everything that must leave it alone: playback
\* with its ticks, skip, seek and export, and the recorder and the delete button
\* that change it; the render of onstop's update may lag.  Two-sentence tracks.
NextKeep ==
  \/ TogglePlay
  \/ Frame(FALSE)
  \/ TimeUpdate(FALSE)
  \/ SimTick
  \/ \E dir \in {-1, 1} : SkipToSegment(dir)
  \/ \E s \in {-SeekStep, SeekStep} : SeekRelative(s)
  \/ (pendingMic = << >> /\ StartRecording)
  \/ MicGrant(1)
  \/ StopRecordingQueued
  \/ FlushClips
  \/ DeleteUserRecording
  \/ HandleExport
  \/ MergeDone
  \/ MergeFail

SpecKeep == InitRec /\ [][NextKeep]_vars

\* the segments with a clip: those in userRecordings and those whose finished
\* recording onstop has handed to setUserRecordings
Stored == userRecordings \cup RangeOf(queuedClips)

\* C35: the set of segments with a clip grows only by a finished recording, by
\* that recording's segment, and shrinks only by the delete button, by the
\* deleted segment; no other operation adds, removes or replaces an entry.
C35_NoImplicitEviction ==
  [][/\ (Stored' \ Stored # {}) =>
           (ev'.op \in {"recStop", "recStopQueued"} /\ Stored' \ Stored = {ev'.arg})
     /\ (Stored \ Stored' # {}) =>
           (ev'.op = "delete" /\ Stored \ Stored' = {ev'.arg})
     /\ (ev'.op \notin {"recStop", "recStopQueued", "delete", "flushClips"}) =>
           (userRecordings' = userRecordings /\ queuedClips' = queuedClips)]_vars

\* the same of the rendered store alone
C35_RenderedStore ==
  [][/\ (userRecordings' \ userRecordings # {}) => ev'.op = "flushClips"
     /\ (userRecordings \ userRecordings' # {}) =>
           (ev'.op = "delete" /\ userRecordings \ userRecordings' = {ev'.arg})]_vars

\* ------------------------------------------------------------------ mode changes while playing
\* a scheduler tick has just run
Ticked == ev.op \in {"frame", "tick"}

\* C36: every tick of the scheduler, on the real and on the simulated track,
\* decides with the play mode and the loop target that are set when it runs:
\* in article mode it takes no boundary action, and in sentence mode at or past
\* the end of the active segment it replays or pauses as the loop target says.
C36_ModeChangeGoverns ==
  /\ Ticked => ev.fresh
  /\ (Ticked /\ playMode = "article") => ev.arg \in {0, 3}
  /\ (Ticked /\ playMode = "sentence" /\ HasSeg(ev.ai) /\ ev.t >= Seg(ev.ai).endTime) =>
        ev.arg = BoundaryOutcome

\* ------------------------------------------------------------------ recording across a switch
\* C37: a recording that is open, or waiting for the microphone, when the
\* material is switched adds no entry to the store of the new material, and
\* isRecording is true only for a recording of the material that is shown.
C37_NoStaleRecording ==
  /\ []((~pendingInit /\ isRecording) => recMat = material)
  /\ [][(ev'.op \in {"recStop", "recStopQueued"} /\ recMat # material) =>
          userRecordings' = userRecordings]_vars

\* ------------------------------------------------------------------ the clock outside the sentences
\* Playback and navigation on tracks with gaps.
InitGap == InitFor(GapMaterials)

NextGap ==
  \/ TogglePlay
  \/ Frame(FALSE)
  \/ TimeUpdate(FALSE)
  \/ SimTick
  \/ \E dir \in {-1, 1} : SkipToSegment(dir)
  \/ \E i \in 0..(NSeg - 1) : HandleSegmentClick(i)
  \/ \E s \in {-SeekStep, SeekStep} : SeekRelative(s)
  \/ TogglePlayMode

SpecGap == InitGap /\ [][NextGap]_vars

\* C38: on a material with segments activeIndex, once 0 or more, never goes
\* back to -1 while the material stays, and an operation that leaves the clock
\* shown in a gap or past the last segment leaves activeIndex as it was.
C38_ActiveIndexSticks ==
  [][(material' = material /\ NSeg > 0 /\ activeIndex >= 0) =>
        /\ activeIndex' >= 0
        /\ (FindIndex(currentTime') = -1 /\ ev'.op # "click") => activeIndex' = activeIndex]_vars

\* the clock has been shown in the gap between two sentences, and past the last
InGap ==
  /\ ev.op \in {"timeupdate", "tick"}
  /\ FindIndex(currentTime) = -1
  /\ currentTime > Seg(0).endTime /\ currentTime < Seg(NSeg - 1).startTime
C38_Witness == InGap /\ activeIndex = 0

\* ------------------------------------------------------------------ one scheduler loop
\* C39: at most one scheduler loop is live at any time: never more than one chain of
\* check() with an animation frame pending and never more than one interval of the
\* simulated clock, whatever sequence of play, pause, skip, segment click, loop replay
\* and mode change ran; and the one that is live is the one its ref names.
C39_OneLoop ==
  /\ chk.n = (IF chk.live THEN 1 ELSE 0)
  /\ sim.n = (IF sim.live THEN 1 ELSE 0)
  /\ chk.n + sim.n <= 1

\* the interval callback has replayed the sentence, which starts the clock again from
\* inside the running interval
C39_Witness == ev.op = "tick" /\ ev.arg = 1 /\ sim.live /\ sim.n = 1

====
